---------------------------- MODULE Spec2Model ----------------------------
(***************************************************************************)
(* Canvas PowerPoint downloader: the traversal course -> modules -> items  *)
(* -> page links, the paginated fetches, the dedup set and the output      *)
(* tree, as written in download_canvas_ppts.py (CLI) and app.py (web app). *)
(*                                                                         *)
(* Text (file names, hrefs, module names) is a sequence of one-character   *)
(* strings, so that lower(), endswith(), replace() and the regular         *)
(* expression are computed character by character.                        *)
(***************************************************************************)
EXTENDS Integers, Sequences, FiniteSets, TLC

None == "None"

\* None where a text is expected
NoText == <<"None">>

\* ------------------------------------------------------------------ text

UpperCase == <<"A","B","C","D","E","F","G","H","I","J","K","L","M",
               "N","O","P","Q","R","S","T","U","V","W","X","Y","Z">>

LowerCase == <<"a","b","c","d","e","f","g","h","i","j","k","l","m",
               "n","o","p","q","r","s","t","u","v","w","x","y","z">>

Digits == {"0","1","2","3","4","5","6","7","8","9"}

\* str.lower(), one character
LowerChar(c) ==
    IF \E i \in 1..26 : UpperCase[i] = c
    THEN LowerCase[CHOOSE i \in 1..26 : UpperCase[i] = c]
    ELSE c

\* str.lower()
lower(s) == [i \in 1..Len(s) |-> LowerChar(s[i])]

\* str.endswith(suffix)
endswith(s, suffix) ==
    /\ Len(s) >= Len(suffix)
    /\ SubSeq(s, Len(s) - Len(suffix) + 1, Len(s)) = suffix

\* whether sub occurs in s at position i
OccursAt(s, sub, i) ==
    /\ i >= 1
    /\ i + Len(sub) - 1 <= Len(s)
    /\ SubSeq(s, i, i + Len(sub) - 1) = sub

\* Python's  sub in s
contains(s, sub) == \E i \in 1..(Len(s) + 1) : OccursAt(s, sub, i)

PPT  == <<".","p","p","t">>
PPTX == <<".","p","p","t","x">>
PPTM == <<".","p","p","t","m">>
FILES == <<"/","f","i","l","e","s","/">>

\* the tuple of extensions both scripts test with endswith
PptSuffixes == {PPT, PPTX, PPTM}

\* is_powerpoint(filename): filename.lower().endswith(('.ppt', '.pptx', '.pptm'))
is_powerpoint_contains(filename) ==
    \E suf \in PptSuffixes : contains(lower(filename), suf)

is_powerpoint(filename) ==
    \E suf \in PptSuffixes : endswith(lower(filename), suf)

\* invalid_chars = '<>:"/\\|?*'
invalid_chars == {"<", ">", ":", "\"", "/", "\\", "|", "?", "*"}

\* sanitize_filename(filename): every invalid character becomes '_'
sanitize_filename(filename) ==
    [i \in 1..Len(filename) |->
        IF filename[i] \in invalid_chars THEN "_" ELSE filename[i]]

\* the maximal run of digits of s that starts at position i
RECURSIVE DigitRun(_, _)
DigitRun(s, i) ==
    IF i <= Len(s) /\ s[i] \in Digits
    THEN <<s[i]>> \o DigitRun(s, i + 1)
    ELSE <<>>

\* the positions where the regular expression /files/(\d+) matches
FileIdMatches(url) ==
    {i \in 1..Len(url) :
        /\ OccursAt(url, FILES, i)
        /\ i + Len(FILES) <= Len(url)
        /\ url[i + Len(FILES)] \in Digits}

Min(S) == CHOOSE x \in S : \A y \in S : x <= y

extract_file_id_leftmost_files(url) ==
    IF \E i \in 1..Len(url) : OccursAt(url, FILES, i)
    THEN LET i == Min({j \in 1..Len(url) : OccursAt(url, FILES, j)})
             run == DigitRun(url, i + Len(FILES))
         IN IF run = <<>> THEN NoText ELSE run
    ELSE NoText

\* extract_file_id_from_url(url): re.search(r'/files/(\d+)', url).group(1),
\* else None (the second pattern of the CLI repeats the same search)
extract_file_id_from_url(url) ==
    IF FileIdMatches(url) # {}
    THEN DigitRun(url, Min(FileIdMatches(url)) + Len(FILES))
    ELSE NoText

\* FileURLExtractor.handle_starttag(tag, attrs): the hrefs it appends
RECURSIVE HrefsOf(_)
HrefsOf(attrs) ==
    IF attrs = <<>> THEN <<>>
    ELSE LET a == Head(attrs)
             value == a[2]
             hit == /\ a[1] = "href"
                    /\ value # NoText /\ value # <<>>
                    /\ (contains(value, FILES)
                        \/ \E suf \in PptSuffixes : endswith(value, suf))
         IN (IF hit THEN <<value>> ELSE <<>>) \o HrefsOf(Tail(attrs))

handle_starttag(tag, attrs) ==
    IF tag = "a" THEN HrefsOf(attrs) ELSE <<>>

\* parser.feed(html); parser.file_urls, html being the sequence of its
\* start tags [tag, attrs] in document order
RECURSIVE feed(_)
feed(html) ==
    IF html = <<>> THEN <<>>
    ELSE handle_starttag(Head(html).tag, Head(html).attrs) \o feed(Tail(html))

\* ------------------------------------------------------------ the server

\* HTTP statuses the Canvas server answers with (redirects are followed
\* inside requests.get); 0 stands for "no response" (a network failure)
Statuses == {200, 401, 404, 500}

NoResponse == 0

\* response.raise_for_status(): raises HTTPError for 4xx and 5xx
raise_for_status_auth_only(status) == status = 401

raise_for_status_server_only(status) == status >= 500 /\ status < 600

raise_for_status(status) == status >= 400 /\ status < 600

\* the signed download urls (opaque dedup keys)
DownloadURLs == {"u1", "u2"}

A_PPT   == <<"a", ".", "p", "p", "t">>
B_UPPER == <<"B", ".", "P", "P", "T", "X">>
C_OTHER == <<"c", ".", "p", "p", "t", ".", "z">>
UNKNOWN == <<"u", "n", "k", "n", "o", "w", "n">>

MaxPages == 2
MaxRecs  == 2
MaxLinks == 2

\* all sequences over S of length at most n
SeqsUpTo(S, n) == UNION {[1..k -> S] : k \in 0..n}

\* module records of the modules endpoint
ModuleRecords ==
    { [id |-> 1, name |-> <<"M", ":">>],
      [id |-> 2, name |-> <<"M", "_">>] }

ModuleIds == {m.id : m \in ModuleRecords}

\* item records of the module-items endpoint: type, title and the
\* type-specific reference url (None when the key is absent)
ItemRecords ==
    { [type |-> "File", title |-> A_PPT,   url |-> "ref"],
      [type |-> "File", title |-> B_UPPER, url |-> "ref"],
      [type |-> "File", title |-> C_OTHER, url |-> "ref"],
      [type |-> "Page", title |-> NoText, url |-> "ref"],
      [type |-> "Assignment", title |-> NoText, url |-> "ref"] }

\* a page answered 2xx holding at most n records
OkPages(Recs, n) ==
    {[status |-> 200, records |-> r] : r \in SeqsUpTo(Recs, n)}

\* a page answered with an error status
ErrorPages == {[status |-> s, records |-> <<>>] : s \in Statuses \ {200}}

\* a paged collection: at most `pages` pages linked by "next", holding at
\* most n records in all; page i < Len links to page i + 1, the last page
\* has no "next" link.  A page behind a failing page is never requested,
\* so only the last page of a chain fails.
RECURSIVE ChainsOf(_, _, _)
ChainsOf(Recs, pages, n) ==
    IF pages = 0 THEN {}
    ELSE {<<p>> : p \in OkPages(Recs, n) \cup ErrorPages}
         \cup UNION {{<<p>> \o c :
                        c \in ChainsOf(Recs, pages - 1, n - Len(p.records))} :
                     p \in OkPages(Recs, n)}

\* start tags of a page body
HREF_FILE == FILES \o <<"1">>
HREF_EXT  == <<"x">> \o PPTX
HREF_PAGE == <<"/", "p">>

BodyTags ==
    { [tag |-> "a", attrs |-> << <<"href", HREF_FILE>> >>],
      [tag |-> "a", attrs |-> << <<"href", HREF_EXT>> >>],
      [tag |-> "a", attrs |-> << <<"href", HREF_PAGE>> >>] }

Bodies == SeqsUpTo(BodyTags, MaxLinks)

\* answers to GET <item file-content url>: a status and a body that is
\* JSON (with or without "url") or not JSON; or no response at all
FileContentResponses ==
    {[status |-> s, body |-> "json", url |-> u] :
        s \in Statuses, u \in DownloadURLs \cup {None}}
    \cup {[status |-> s, body |-> "nojson", url |-> None] : s \in Statuses}
    \cup {[status |-> NoResponse, body |-> "none", url |-> None]}

\* answers to GET <item page-content url>
PageResponses ==
    {[status |-> 200, body |-> "json", html |-> h] : h \in Bodies}
    \cup {[status |-> s, body |-> b, html |-> <<>>] :
            s \in Statuses, b \in {"nojson"}}
    \cup {[status |-> NoResponse, body |-> "none", html |-> <<>>]}

\* file metadata: display_name, filename, url (None when the key is absent)
Infos ==
    { [display_name |-> A_PPT,   filename |-> NoText, url |-> "u1"],
      [display_name |-> A_PPT,   filename |-> NoText, url |-> "u2"],
      [display_name |-> NoText,  filename |-> B_UPPER, url |-> "u1"],
      [display_name |-> C_OTHER, filename |-> A_PPT,   url |-> "u2"],
      [display_name |-> NoText,  filename |-> NoText, url |-> "u1"],
      [display_name |-> A_PPT,   filename |-> NoText, url |-> None] }

NoInfo == [display_name |-> NoText, filename |-> NoText, url |-> None]

\* answers to GET /courses/{id}/files/{fileId}
FileInfoResponses ==
    {[status |-> 200, body |-> "json", info |-> i] : i \in Infos}
    \cup {[status |-> s, body |-> "nojson", info |-> NoInfo] : s \in Statuses}
    \cup {[status |-> NoResponse, body |-> "none", info |-> NoInfo]}

\* answers to GET <signed download url>, and failures of the byte stream
\* or of the write once the response has arrived ("ioerr")
DownloadOutcomes ==
    {[status |-> s, io |-> "ok"] : s \in Statuses}
    \cup {[status |-> NoResponse, io |-> "ok"], [status |-> 200, io |-> "ioerr"]}

\* ------------------------------------------------------------- the state

VARIABLES
    mode,              \* "cli": main(); "app": download_powerpoints()
    pc,                \* where the run is
    chain,             \* SpecFetch: the paged collection being fetched
    url,               \* get_modules/get_module_items: url (0 is None)
    params,            \* get_modules/get_module_items: params
    acc,               \* get_modules/get_module_items: modules / items
    reqs,              \* the requests the running fetch has issued
    modules,           \* for module in modules: the modules still to come
    module,            \* module (module_name, module_id)
    items,             \* for item in items: the items still to come
    links,             \* for file_url in parser.file_urls: links still to come
    pending,           \* the download_url and filename about to be retrieved
    downloaded_files,  \* downloaded_files
    total,             \* total_ppts / total_files
    tree,              \* the files under output_dir / temp_dir
    report,            \* what the run reports at its end
    calls,             \* how often download_file was called, per url
    got,               \* the urls whose bytes download_file returned
    placed,            \* the files retrieved: url and the filepath written
    last,              \* what the last step did and the response it got
    page_body,         \* SpecPage: the page body handed to parser.feed
    choice,            \* flatten.py main: the method chosen
    rglob,             \* flatten.py: the source files the loop has yet to reach
    output,            \* flatten.py: the files of OUTPUT_DIR
    copied_count,      \* flatten.py: copied_count
    all_files,         \* flatten.py: the PowerPoint files under SOURCE_DIR
    output0            \* flatten.py: the files of OUTPUT_DIR at the start

vars == <<mode, pc, chain, url, params, acc, reqs, modules, module, items,
          links, pending, downloaded_files, total, tree, report, calls,
          got, placed, last, page_body, choice, rglob, output, copied_count,
          all_files, output0>>

fetchVars == <<chain, url, params, acc, reqs>>
loopVars  == <<modules, module, items, links>>
setVars   == <<downloaded_files, total, calls, got, placed>>
flatVars  == <<choice, rglob, output, copied_count, all_files, output0>>
toolVars  == <<page_body, flatVars>>

\* the page parser and flatten.py take no part in the step at hand
FlattenIdle ==
    /\ choice = "none"
    /\ rglob = <<>>
    /\ output = {}
    /\ copied_count = 0
    /\ all_files = <<>>
    /\ output0 = {}

ToolsIdle == page_body = <<>> /\ FlattenIdle

Modes == {"cli", "app"}

FetchPcs == {"get_modules", "get_module_items"}

NoModule  == [id |-> 0, name |-> NoText]
NoPending == [url |-> None, name |-> NoText]
NoReport  == [status |-> "none", count |-> 0, archive |-> {}]

\* what a step records: the handler that ran, the file name it tested,
\* the request it issued ("none": no request), the answer, and the
\* download_url the step resolved or retrieved
Did(op, name, req, page, status, body, dl) ==
    [op |-> op, name |-> name, req |-> req, page |-> page,
     status |-> status, body |-> body, dl |-> dl]

Init ==
    /\ mode \in Modes
    /\ pc = "get_modules"
    /\ chain = <<>>
    /\ url = 1
    /\ params = "per_page"
    /\ acc = <<>>
    /\ reqs = <<>>
    /\ modules = <<>>
    /\ module = NoModule
    /\ items = <<>>
    /\ links = <<>>
    /\ pending = NoPending
    /\ downloaded_files = {}
    /\ total = 0
    /\ tree = {}
    /\ report = NoReport
    /\ calls = [u \in DownloadURLs |-> 0]
    /\ got = {}
    /\ placed = {}
    /\ last = Did("init", NoText, "none", 0, NoResponse, "none", None)
    /\ ToolsIdle

Raise_and_continue(files) ==
    /\ pc' = "loop"
    /\ tree' = files
    /\ report' = report
    /\ pending' = NoPending

\* An exception leaves the try block: main() prints the error and returns;
\* download_powerpoints() removes temp_dir (finally) and raises to its caller.
Raise(files) ==
    /\ pc' = "aborted"
    /\ tree' = IF mode = "app" THEN {} ELSE files
    /\ report' = [status |-> "error", count |-> 0, archive |-> {}]
    /\ pending' = NoPending

\* ------------------------------------------------------- paginated fetch

\* url = response.links['next']['url'] if 'next' in response.links, else
\* url = None; more: whether the response carries a "next" link
next_url_same(more, u) == u

next_url(more, u) == IF more THEN u + 1 ELSE 0

\* modules.extend(response.json()) / items.extend(response.json())
extend_replace(list, records) == records

extend(list, records) == list \o records

\* one iteration of "while url:" of get_modules / get_module_items, the
\* server answering with `page`
FetchPageWith(page, more) ==
    /\ reqs' = Append(reqs, [url |-> url, params |-> params])
    /\ last' = Did("fetch", NoText,
                   IF pc = "get_modules" THEN "modules" ELSE "items",
                   url, page.status, "json", None)
    /\ IF raise_for_status(page.status)
       THEN /\ Raise(tree)
            /\ UNCHANGED <<mode, toolVars, chain, url, params, acc, loopVars, setVars>>
       ELSE /\ acc' = extend(acc, page.records)
            /\ url' = next_url(more, url)
            /\ params' = IF more THEN "none" ELSE params
            /\ UNCHANGED <<mode, toolVars, pc, chain, loopVars, pending, setVars,
                           tree, report>>

\* in a run the server makes up each page as it is requested: at most
\* MaxPages pages holding at most MaxRecs records in all
FetchPage ==
    /\ pc \in FetchPcs
    /\ url # 0
    /\ \E page \in OkPages(IF pc = "get_modules" THEN ModuleRecords
                           ELSE ItemRecords, MaxRecs - Len(acc))
                   \cup ErrorPages,
          more \in BOOLEAN :
        /\ more => (url < MaxPages /\ page.status = 200)
        /\ FetchPageWith(page, more)

\* selected_modules = [m for m in modules if m['id'] in selected_module_ids]
selected_modules(ms, selected_module_ids) ==
    SelectSeq(ms, LAMBDA m : m.id \in selected_module_ids)

\* get_modules returns; the web app keeps the selected modules
ModulesFetched ==
    /\ pc = "get_modules"
    /\ url = 0
    /\ IF mode = "cli"
       THEN modules' = acc
       ELSE \E sel \in SUBSET ModuleIds \ {{}} :
                modules' = selected_modules(acc, sel)
    /\ pc' = "loop"
    /\ params' = "none" /\ acc' = <<>> /\ reqs' = <<>>
    /\ last' = Did("return", NoText, "none", 0, NoResponse, "none", None)
    /\ UNCHANGED <<mode, toolVars, chain, url, module, items, links, pending, setVars,
                   tree, report>>

\* get_module_items returns
ItemsFetched ==
    /\ pc = "get_module_items"
    /\ url = 0
    /\ items' = acc
    /\ pc' = "loop"
    /\ params' = "none" /\ acc' = <<>> /\ reqs' = <<>>
    /\ last' = Did("return", NoText, "none", 0, NoResponse, "none", None)
    /\ UNCHANGED <<mode, toolVars, chain, url, modules, module, links, pending,
                   setVars, tree, report>>

\* ------------------------------------------------------------- traversal

\* for module in modules: module_folder, then get_module_items begins
NextModule ==
    /\ pc = "loop"
    /\ links = <<>> /\ items = <<>> /\ modules # <<>>
    /\ module' = Head(modules)
    /\ modules' = Tail(modules)
    /\ pc' = "get_module_items"
    /\ url' = 1
    /\ params' = "per_page"
    /\ acc' = <<>>
    /\ reqs' = <<>>
    /\ last' = Did("module", NoText, "none", 0, NoResponse, "none", None)
    /\ UNCHANGED <<mode, toolVars, chain, items, links, pending, setVars, tree,
                   report>>

\* item.get('title', 'unknown')
item_title(item) == IF item.title = NoText THEN UNKNOWN ELSE item.title

\* download_url and download_url not in downloaded_files
should_retrieve_always(download_url, seen) == download_url # None

should_retrieve(download_url, seen) ==
    download_url # None /\ download_url \notin seen

\* the step after a file's download_url is known: retrieve it or pass on
Resolved(download_url, filename) ==
    IF should_retrieve(download_url, downloaded_files)
    THEN /\ pc' = "download"
         /\ pending' = [url |-> download_url, name |-> filename]
    ELSE /\ pc' = "loop"
         /\ pending' = NoPending

Pass == pc' = "loop" /\ pending' = NoPending

\* if item_type == 'File': the secondary request on the item's own url
\* has no try/except and no raise_for_status
FileItem ==
    /\ pc = "loop"
    /\ links = <<>> /\ items # <<>>
    /\ Head(items).type = "File"
    /\ LET item == Head(items)
           filename == item_title(item)
       IN /\ items' = Tail(items)
          /\ IF is_powerpoint(filename) /\ item.url # None
             THEN \E r \in FileContentResponses :
                    /\ last' = Did("file", filename, "file_content", 0,
                                   r.status, r.body, r.url)
                    /\ IF r.body # "json"
                       THEN /\ Raise(tree)
                            /\ UNCHANGED <<mode, toolVars, fetchVars, modules, module, links,
                                           setVars>>
                       ELSE /\ Resolved(r.url, filename)
                            /\ UNCHANGED <<mode, toolVars, fetchVars, modules, module,
                                           links, setVars, tree, report>>
             ELSE /\ last' = Did("file", filename, "none", 0, NoResponse,
                                 "none", None)
                  /\ Pass
                  /\ UNCHANGED <<mode, toolVars, fetchVars, modules, module, links,
                                 setVars, tree, report>>

\* whether a guarded request fails inside its try block: requests.get or
\* raise_for_status or response.json() raises
request_fails(r) ==
    r.status = NoResponse \/ raise_for_status(r.status) \/ r.body # "json"

\* get_page_content(headers, page_url): how the call ends.  It returns
\* page_data.get('body', ''), and '' on any exception; it never raises.
get_page_content_raising(r) ==
    [raised |-> request_fails(r),
     value  |-> IF request_fails(r) THEN <<>> ELSE r.html]

get_page_content(r) ==
    [raised |-> FALSE,
     value  |-> IF request_fails(r) THEN <<>> ELSE r.html]

\* elif item_type == 'Page': the body's candidate links
PageItem ==
    /\ pc = "loop"
    /\ links = <<>> /\ items # <<>>
    /\ Head(items).type = "Page"
    /\ items' = Tail(items)
    /\ IF Head(items).url # None
       THEN \E r \in PageResponses :
              LET page_html == get_page_content(r) IN
                /\ last' = Did("page", NoText, "page", 0, r.status, r.body,
                               None)
                /\ IF page_html.raised
                   THEN \* main has no handler of its own around the call
                        /\ Raise(tree)
                        /\ UNCHANGED <<mode, toolVars, fetchVars, modules, module, links,
                                       setVars>>
                   ELSE /\ links' = feed(page_html.value)
                        /\ Pass
                        /\ UNCHANGED <<mode, toolVars, fetchVars, modules, module,
                                       setVars, tree, report>>
       ELSE /\ last' = Did("page", NoText, "none", 0, NoResponse, "none",
                        None)
            /\ Pass
            /\ UNCHANGED <<mode, toolVars, fetchVars, modules, module, links, setVars,
                           tree, report>>

\* an item that is neither a File nor a Page
OtherItem ==
    /\ pc = "loop"
    /\ links = <<>> /\ items # <<>>
    /\ Head(items).type \notin {"File", "Page"}
    /\ items' = Tail(items)
    /\ last' = Did("other", NoText, "none", 0, NoResponse, "none", None)
    /\ Pass
    /\ UNCHANGED <<mode, toolVars, fetchVars, modules, module, links, setVars, tree,
                   report>>

\* get_file_info(canvas_url, headers, course_id, file_id): how the call
\* ends.  It returns response.json(), and None on any exception; it never
\* raises.
get_file_info_raising(r) ==
    [raised |-> request_fails(r),
     value  |-> IF request_fails(r) THEN NoInfo ELSE r.info]

get_file_info(r) ==
    [raised |-> FALSE,
     value  |-> IF request_fails(r) THEN NoInfo ELSE r.info]

\* file_info.get('display_name', file_info.get('filename', 'unknown'))
display_name(file_info) ==
    IF file_info.display_name # NoText THEN file_info.display_name
    ELSE IF file_info.filename # NoText THEN file_info.filename
    ELSE UNKNOWN

\* for file_url in parser.file_urls: one candidate link
LinkItem ==
    /\ pc = "loop"
    /\ links # <<>>
    /\ links' = Tail(links)
    /\ LET file_id == extract_file_id_from_url(Head(links)) IN
         IF file_id # NoText
         THEN \E r \in FileInfoResponses :
                LET got_info == get_file_info(r)
                    file_info == got_info.value
                    filename == display_name(file_info)
                IN /\ last' = Did("link",
                                  IF file_info = NoInfo THEN NoText
                                  ELSE filename,
                                  "file_info", 0, r.status, r.body,
                                  file_info.url)
                   /\ IF got_info.raised
                      THEN \* main has no handler of its own around the call
                           /\ Raise(tree)
                           /\ UNCHANGED <<mode, toolVars, fetchVars, modules, module, items,
                                          setVars>>
                      ELSE /\ IF file_info # NoInfo /\ is_powerpoint(filename)
                              THEN Resolved(file_info.url, filename)
                              ELSE Pass
                           /\ UNCHANGED <<mode, toolVars, fetchVars, modules, module,
                                          items, setVars, tree, report>>
         ELSE /\ last' = Did("link", NoText, "none", 0, NoResponse, "none",
                          None)
              /\ Pass
              /\ UNCHANGED <<mode, toolVars, fetchVars, modules, module, items, setVars,
                             tree, report>>

\* ------------------------------------------------- retrieval and output

write_file_beside(files, folder, name, content, complete) ==
    files \cup {[folder |-> folder, name |-> name, url |-> content,
                 complete |-> complete]}

\* filepath = module_folder / sanitize_filename(filename), written with the
\* bytes of download_url; a file already at filepath is replaced
write_file(files, folder, name, content, complete) ==
    {f \in files : ~(f.folder = folder /\ f.name = name)}
    \cup {[folder |-> folder, name |-> name, url |-> content,
           complete |-> complete]}

\* downloaded_files.add(download_url)
add_not(seen, download_url) == seen

add(seen, download_url) == seen \cup {download_url}

\* total_ppts += 1 / total_files += 1
increment_not(n) == n

increment(n) == n + 1

\* download_file, then downloaded_files.add and the count
Download ==
    /\ pc = "download"
    /\ \E o \in DownloadOutcomes :
        LET folder == sanitize_filename(module.name)
            name   == sanitize_filename(pending.name)
        IN /\ calls' = [calls EXCEPT ![pending.url] = @ + 1]
           /\ last' = Did("download", pending.name, "download", 0, o.status,
                          o.io, pending.url)
           /\ IF o.status = NoResponse \/ raise_for_status(o.status)
              THEN /\ Raise(tree)
                   /\ UNCHANGED <<mode, toolVars, fetchVars, loopVars,
                                  downloaded_files, total, got, placed>>
              ELSE IF o.io # "ok"
              THEN \* the CLI has opened filepath for writing by now
                   /\ Raise(write_file(tree, folder, name, pending.url, FALSE))
                   /\ UNCHANGED <<mode, toolVars, fetchVars, loopVars,
                                  downloaded_files, total, got, placed>>
              ELSE /\ tree' = write_file(tree, folder, name, pending.url, TRUE)
                   /\ downloaded_files' = add(downloaded_files, pending.url)
                   /\ total' = increment(total)
                   /\ got' = got \cup {pending.url}
                   /\ placed' = placed \cup {[url |-> pending.url,
                                               folder |-> folder,
                                               name |-> name]}
                   /\ pc' = "loop"
                   /\ pending' = NoPending
                   /\ UNCHANGED <<mode, toolVars, fetchVars, loopVars, report>>

\* the loops are over: the CLI prints the count; the web app zips temp_dir,
\* returns (zip_buffer, total_files) and removes temp_dir
Finish ==
    /\ pc = "loop"
    /\ links = <<>> /\ items = <<>> /\ modules = <<>>
    /\ pc' = "done"
    /\ report' = [status |-> "complete", count |-> total,
                  archive |-> IF mode = "app" THEN tree ELSE {}]
    /\ tree' = IF mode = "app" THEN {} ELSE tree
    /\ last' = Did("finish", NoText, "none", 0, NoResponse, "none", None)
    /\ UNCHANGED <<mode, toolVars, fetchVars, loopVars, pending, setVars>>

Next ==
    \/ FetchPage
    \/ ModulesFetched
    \/ ItemsFetched
    \/ NextModule
    \/ FileItem
    \/ PageItem
    \/ OtherItem
    \/ LinkItem
    \/ Download
    \/ Finish

Spec == Init /\ [][Next]_vars

\* ------------------------------------- the paginated fetch on its own

FetchMaxPages == 3
FetchMaxRecs  == 3

FetchItemRecords ==
    {i \in ItemRecords : i.type = "File" /\ i.title # A_PPT}

\* one call of get_modules or of get_module_items, over every chain of at
\* most FetchMaxPages pages holding at most FetchMaxRecs records in all
InitFetch ==
    /\ mode \in Modes
    /\ pc \in FetchPcs
    /\ chain \in ChainsOf(IF pc = "get_modules" THEN ModuleRecords
                          ELSE FetchItemRecords,
                          FetchMaxPages, FetchMaxRecs)
    /\ url = 1
    /\ params = "per_page"
    /\ acc = <<>>
    /\ reqs = <<>>
    /\ modules = <<>>
    /\ module = IF pc = "get_modules" THEN NoModule
                ELSE CHOOSE m \in ModuleRecords : m.id = 1
    /\ items = <<>>
    /\ links = <<>>
    /\ pending = NoPending
    /\ downloaded_files = {}
    /\ total = 0
    /\ tree = {}
    /\ report = NoReport
    /\ calls = [u \in DownloadURLs |-> 0]
    /\ got = {}
    /\ placed = {}
    /\ last = Did("init", NoText, "none", 0, NoResponse, "none", None)
    /\ ToolsIdle

\* the server answers with the requested page of the chain
FetchChainPage ==
    /\ pc \in FetchPcs
    /\ url # 0
    /\ url <= Len(chain)
    /\ FetchPageWith(chain[url], url < Len(chain))

NextFetch ==
    \/ FetchChainPage
    \/ ModulesFetched
    \/ ItemsFetched

\* the loop "while url:" is sequential code: it goes on until it is over
SpecFetch == InitFetch /\ [][NextFetch]_vars /\ WF_vars(NextFetch)

\* ------------------------------------------- one page body on its own

HREF_UPPER  == <<"x", ".", "P", "P", "T", "X">>
HREF_PPT    == <<"y", ".", "p", "p", "t">>
HREF_PPTM   == FILES \o <<"4">> \o PPTM
HREF_MID    == PPTX \o <<"/", "y">>
HREF_NOID   == FILES
HREF_NAME   == FILES \o <<"x">>
HREF_SECOND == FILES \o <<"x">> \o FILES \o <<"7">>
HREF_TWO    == FILES \o <<"1", "2">> \o FILES \o <<"3">>
HREF_QUERY  == <<"/", "c", "/", "9">> \o FILES \o <<"4", "5", "?", "x", "=", "1">>

\* the href values of the anchors of a page body
Hrefs ==
    {HREF_FILE, HREF_EXT, HREF_PAGE, HREF_UPPER, HREF_PPT, HREF_PPTM,
     HREF_MID, HREF_NOID, HREF_NAME, HREF_SECOND, HREF_TWO, HREF_QUERY}

\* the start tags HTMLParser hands to handle_starttag: anchors with an
\* href, with a valueless or empty href, with other attributes, with
\* several attributes, and tags that are not anchors
PageTags ==
    {[tag |-> "a", attrs |-> << <<"href", h>> >>] : h \in Hrefs}
    \cup { [tag |-> "a", attrs |-> <<>>],
           [tag |-> "a", attrs |-> << <<"href", NoText>> >>],
           [tag |-> "a", attrs |-> << <<"href", <<>> >> >>],
           [tag |-> "a", attrs |-> << <<"name", HREF_FILE>> >>],
           [tag |-> "a", attrs |-> << <<"class", HREF_PPT>>,
                                      <<"href", HREF_QUERY>> >>],
           [tag |-> "link", attrs |-> << <<"href", HREF_FILE>> >>],
           [tag |-> "img", attrs |-> << <<"src", HREF_PPT>> >>] }

MaxTags == 2

\* main has the body of a Page item in hand (get_page_content returned it)
\* and is about to parse it
InitPage ==
    /\ mode \in Modes
    /\ pc = "feed"
    /\ page_body \in SeqsUpTo(PageTags, MaxTags)
    /\ chain = <<>>
    /\ url = 0
    /\ params = "none"
    /\ acc = <<>>
    /\ reqs = <<>>
    /\ modules = <<>>
    /\ module = CHOOSE m \in ModuleRecords : m.id = 1
    /\ items = <<>>
    /\ links = <<>>
    /\ pending = NoPending
    /\ downloaded_files = {}
    /\ total = 0
    /\ tree = {}
    /\ report = NoReport
    /\ calls = [u \in DownloadURLs |-> 0]
    /\ got = {}
    /\ placed = {}
    /\ last = Did("page", NoText, "page", 0, 200, "json", None)
    /\ FlattenIdle

\* parser = FileURLExtractor(); parser.feed(page_html)
ParsePage ==
    /\ pc = "feed"
    /\ links' = feed(page_body)
    /\ last' = Did("feed", NoText, "none", 0, NoResponse, "none", None)
    /\ Pass
    /\ UNCHANGED <<mode, toolVars, fetchVars, modules, module, items,
                   setVars, tree, report>>

NextPage ==
    \/ ParsePage
    \/ LinkItem
    \/ Download
    \/ Finish

SpecPage == InitPage /\ [][NextPage]_vars

\* ------------------------------------------------------------ flatten.py

\* the characters of the names below, in code point order (str < str)
CodePoints ==
    <<" ", "(", ")", "-", ".", "0", "1", "2", "3", "4", "5", "6", "7", "8",
      "9">> \o UpperCase \o <<"_">> \o LowerCase

ord(c) == CHOOSE i \in 1..Len(CodePoints) : CodePoints[i] = c

\* Python's  s < t  on str
str_lt(s, t) ==
    \E k \in 1..(Len(s) + 1) :
        /\ k <= Len(t)
        /\ SubSeq(s, 1, k - 1) = SubSeq(t, 1, k - 1)
        /\ k = Len(s) + 1 \/ ord(s[k]) < ord(t[k])

DigitChars == <<"0", "1", "2", "3", "4", "5", "6", "7", "8", "9">>

\* str(n), as f"{counter}" formats it
RECURSIVE str(_)
str(n) ==
    IF n < 10 THEN <<DigitChars[n + 1]>>
    ELSE str(n \div 10) \o <<DigitChars[(n % 10) + 1]>>

\* f"{idx:02d}"
format_02d(n) == IF n < 10 THEN <<"0">> \o str(n) ELSE str(n)

\* name.rfind('.'), 0 when there is no dot
rfind_dot(name) ==
    IF \E i \in 1..Len(name) : name[i] = "."
    THEN CHOOSE i \in 1..Len(name) :
            /\ name[i] = "."
            /\ \A j \in (i + 1)..Len(name) : name[j] # "."
    ELSE 0

\* PurePath.suffix: from the last dot, unless the name starts or ends
\* with it
suffix(name) ==
    LET i == rfind_dot(name)
    IN IF 1 < i /\ i < Len(name) THEN SubSeq(name, i, Len(name)) ELSE <<>>

\* PurePath.stem
stem(name) ==
    LET i == rfind_dot(name)
    IN IF 1 < i /\ i < Len(name) THEN SubSeq(name, 1, i - 1) ELSE name

MOD_A == <<"M", "o", "d", "A">>
MOD_B == <<"M", "o", "d", "B">>
A_PPTX == <<"a">> \o PPTX
B_PPTX == <<"b">> \o PPTX
C_PPTX == <<"c">> \o PPTX
A2_PPTX == <<"a", " ", "(", "2", ")">> \o PPTX
N_TXT == <<"n", ".", "t", "x", "t">>
D_PPT == <<"d">> \o PPT

\* what SOURCE_DIR.rglob("*") yields: files of the module folders, one of
\* them no PowerPoint, and a directory
SourceEntries ==
    { [parent |-> MOD_A, name |-> B_PPTX,  is_file |-> TRUE],
      [parent |-> MOD_A, name |-> A_PPTX,  is_file |-> TRUE],
      [parent |-> MOD_B, name |-> C_PPTX,  is_file |-> TRUE],
      [parent |-> MOD_B, name |-> A_PPTX,  is_file |-> TRUE],
      [parent |-> MOD_B, name |-> A2_PPTX, is_file |-> TRUE],
      [parent |-> MOD_A, name |-> N_TXT,   is_file |-> TRUE],
      [parent |-> MOD_A, name |-> D_PPT,   is_file |-> FALSE] }

\* what OUTPUT_DIR may hold before flatten.py runs (mkdir(exist_ok=True))
OldFile == [parent |-> <<"o", "l", "d">>, name |-> <<>>, is_file |-> TRUE]

OldOutputs ==
    SUBSET { [name |-> A_PPTX, from |-> OldFile],
             [name |-> A2_PPTX, from |-> OldFile] }

MaxFiles == 3

\* the sequences of at most n distinct elements of S
DistinctSeqs(S, n) ==
    {q \in SeqsUpTo(S, n) : \A i, j \in 1..Len(q) : q[i] = q[j] => i = j}

\* dest_path.exists()
exists(out, name) == \E f \in out : f.name = name

\* shutil.copy2(ppt_file, dest_path): a file at dest_path is replaced
copy2(out, ppt_file, name) ==
    {f \in out : f.name # name} \cup {[name |-> name, from |-> ppt_file]}

\* ppt_file.is_file() and is_powerpoint(ppt_file.name)
is_ppt_file(ppt_file) == ppt_file.is_file /\ is_powerpoint(ppt_file.name)

\* while dest_path.exists(): new_name = f"{stem} ({counter}){suffix}"
RECURSIVE while_exists(_, _, _, _, _)
while_exists(out, dest_name, prefix, ext, counter) ==
    IF exists(out, dest_name)
    THEN while_exists(out, prefix \o <<" ", "(">> \o str(counter)
                                  \o <<")">> \o ext,
                      prefix, ext, counter + 1)
    ELSE dest_name

\* flatten_simple: dest_path of one ppt_file
simple_dest_same(out, ppt_file) == ppt_file.name

simple_dest(out, ppt_file) ==
    while_exists(out, ppt_file.name, stem(ppt_file.name),
                 suffix(ppt_file.name), 2)

\* flatten_with_prefixes: dest_path of one ppt_file
prefix_dest(out, ppt_file) ==
    LET prefix == ppt_file.parent \o <<" ", "-", " ">> \o stem(ppt_file.name)
    IN while_exists(out, prefix \o suffix(ppt_file.name), prefix,
                    suffix(ppt_file.name), 2)

\* key=lambda x: (x.parent.name, x.name), compared as tuples
key_lt_name_only(x, y) == str_lt(x.name, y.name)

key_lt(x, y) ==
    \/ str_lt(x.parent, y.parent)
    \/ x.parent = y.parent /\ str_lt(x.name, y.name)

\* list.sort(key=...): stable
RECURSIVE insert_sorted(_, _)
insert_sorted(sorted, x) ==
    IF sorted = <<>> THEN <<x>>
    ELSE IF key_lt(x, Head(sorted)) THEN <<x>> \o sorted
    ELSE <<Head(sorted)>> \o insert_sorted(Tail(sorted), x)

RECURSIVE sort(_)
sort(list) ==
    IF list = <<>> THEN <<>>
    ELSE insert_sorted(sort(SubSeq(list, 1, Len(list) - 1)), list[Len(list)])

\* new_name = f"{idx:02d} - {module_name} - {ppt_file.stem}{suffix}"
number_dest(idx, ppt_file) ==
    format_02d(idx) \o <<" ", "-", " ">> \o ppt_file.parent
        \o <<" ", "-", " ">> \o stem(ppt_file.name) \o suffix(ppt_file.name)

\* the state of the downloader, which flatten.py does not touch
mainVars == <<mode, fetchVars, loopVars, pending, setVars, tree, report,
              last, page_body>>

\* flatten.py main: SOURCE_DIR exists, a method has been chosen
InitFlatten ==
    /\ mode = "cli"
    /\ pc = "flatten"
    /\ chain = <<>>
    /\ url = 0
    /\ params = "none"
    /\ acc = <<>>
    /\ reqs = <<>>
    /\ modules = <<>>
    /\ module = NoModule
    /\ items = <<>>
    /\ links = <<>>
    /\ pending = NoPending
    /\ downloaded_files = {}
    /\ total = 0
    /\ tree = {}
    /\ report = NoReport
    /\ calls = [u \in DownloadURLs |-> 0]
    /\ got = {}
    /\ placed = {}
    /\ last = Did("init", NoText, "none", 0, NoResponse, "none", None)
    /\ page_body = <<>>
    /\ choice \in {"1", "2", "3"}
    /\ rglob \in DistinctSeqs(SourceEntries, MaxFiles)
    /\ output0 \in OldOutputs
    /\ output = output0
    /\ copied_count = 0
    /\ all_files = <<>>

\* one iteration of the loop of flatten_simple or flatten_with_prefixes,
\* dest_name being the name of dest_path for a PowerPoint file
CopyLoop(dest_name) ==
    /\ pc = "flatten"
    /\ rglob # <<>>
    /\ rglob' = Tail(rglob)
    /\ IF is_ppt_file(Head(rglob))
       THEN /\ output' = copy2(output, Head(rglob), dest_name)
            /\ copied_count' = copied_count + 1
       ELSE UNCHANGED <<output, copied_count>>
    /\ UNCHANGED <<pc, mainVars, choice, all_files, output0>>

FlattenSimple ==
    /\ choice = "1"
    /\ rglob # <<>>
    /\ CopyLoop(simple_dest(output, Head(rglob)))

FlattenWithPrefixes ==
    /\ choice = "2"
    /\ rglob # <<>>
    /\ CopyLoop(prefix_dest(output, Head(rglob)))

\* flatten_by_number: all_files is collected and sorted
CollectAndSort ==
    /\ choice = "3"
    /\ pc = "flatten"
    /\ all_files' = sort(SelectSeq(rglob, is_ppt_file))
    /\ rglob' = <<>>
    /\ pc' = "numbering"
    /\ UNCHANGED <<mainVars, choice, output, copied_count, output0>>

\* flatten_by_number: for idx, ppt_file in enumerate(all_files, 1)
FlattenByNumber ==
    /\ choice = "3"
    /\ pc = "numbering"
    /\ copied_count < Len(all_files)
    /\ LET idx == copied_count + 1
           ppt_file == all_files[idx]
       IN output' = copy2(output, ppt_file, number_dest(idx, ppt_file))
    /\ copied_count' = copied_count + 1
    /\ UNCHANGED <<pc, mainVars, choice, rglob, all_files, output0>>

\* return copied_count
FlattenReturn ==
    /\ \/ pc = "flatten" /\ choice \in {"1", "2"} /\ rglob = <<>>
       \/ pc = "numbering" /\ copied_count = Len(all_files)
    /\ pc' = "flattened"
    /\ UNCHANGED <<mainVars, flatVars>>

NextFlatten ==
    \/ FlattenSimple
    \/ FlattenWithPrefixes
    \/ CollectAndSort
    \/ FlattenByNumber
    \/ FlattenReturn

SpecFlatten == InitFlatten /\ [][NextFlatten]_vars

\* ------------------------------------------------------------ properties

\* a status that is not 2xx; no response at all counts as a failure too
Non2xx(status) == ~(status >= 200 /\ status <= 299)

\* C1: download_file is called at most once per download url in a run,
\* however many File items and page links resolve to it, and a call is only
\* made for a url the membership test found absent from downloaded_files.
C1_AtMostOnce ==
    /\ \A u \in DownloadURLs : calls[u] <= 1
    /\ pc = "download" =>
         /\ pending.url \in DownloadURLs
         /\ pending.url \notin downloaded_files
         /\ calls[pending.url] = 0

\* a page link resolved to a url that had been retrieved before, and was
\* passed over
C1_Witness ==
    /\ pc = "loop"
    /\ last.op = "link"
    /\ last.dl \in downloaded_files
    /\ calls[last.dl] = 1
    /\ \E f \in tree : f.url = last.dl /\ f.name = A_PPT

\* C2: the count always equals the number of distinct urls retrieved (the
\* size of downloaded_files), and that is the count a complete run reports.
C2_CountIsDistinct ==
    /\ downloaded_files = got
    /\ total = Cardinality(got)
    /\ \A u \in DownloadURLs : calls[u] >= (IF u \in got THEN 1 ELSE 0)
    /\ pc = "done" => report.count = Cardinality(got)

\* a second File item resolves to the url already retrieved: two
\* references, one retrieved file
C2_Witness ==
    /\ pc = "loop"
    /\ last.op = "file"
    /\ last.dl \in got
    /\ total = 1

\* the same letter, whatever its case
SameLetter(c, d) ==
    \/ c = d
    \/ \E k \in 1..26 : {c, d} = {UpperCase[k], LowerCase[k]}

\* the name ends in .ppt, .pptx or .pptm, compared case-insensitively
EndsInPptExtension(name) ==
    \E suf \in PptSuffixes :
        /\ Len(name) >= Len(suf)
        /\ \A i \in 1..Len(suf) :
              SameLetter(name[Len(name) - Len(suf) + i], suf[i])

\* a step that tested the name of a file and found no PowerPoint extension
TestedOtherName ==
    /\ last.op \in {"file", "link"}
    /\ last.name # NoText
    /\ ~EndsInPptExtension(last.name)

\* C3 as stated: a file whose name does not match has its metadata resolved
\* (a request is made for it) and is never downloaded.
C3_Original ==
    TestedOtherName =>
        /\ last.req \in {"file_content", "file_info"}
        /\ pc # "download"

\* C3 as amended: download_file is only called, and files are only written,
\* for names ending in .ppt, .pptx or .pptm (case-insensitive).  A file
\* found through a page link has its metadata resolved before its name is
\* tested; a File item is tested on its title, and when the title does not
\* match no request at all is made for it.
C3_OnlyPowerPoints ==
    /\ pc = "download" => EndsInPptExtension(pending.name)
    /\ \A f \in tree : EndsInPptExtension(f.name)
    /\ TestedOtherName =>
         /\ pc = "loop"
         /\ pending = NoPending
         /\ last.op = "link" => last.req = "file_info"
         /\ last.op = "file" => last.req = "none"

\* a page link whose metadata names a file that is no PowerPoint, though it
\* has a download url
C3_Witness ==
    /\ last.op = "link"
    /\ last.name = C_OTHER
    /\ last.dl \in DownloadURLs
    /\ pc = "loop"

\* the records of the first k pages of chain c, in page-then-item order
RECURSIVE RecordsOf(_, _)
RecordsOf(c, k) ==
    IF k = 0 THEN <<>> ELSE RecordsOf(c, k - 1) \o c[k].records

\* the i-th request of a fetch asks for page i, with the query parameters
\* on the first request only
RequestedInOrder ==
    \A i \in 1..Len(reqs) :
        /\ reqs[i].url = i
        /\ reqs[i].params = IF i = 1 THEN "per_page" ELSE "none"

\* C4: over any finite chain of pages the fetch ends; while it runs it has
\* requested pages 1..k once each, in order, with the parameters on the
\* first request only, and holds the records of those pages in page-then-
\* item order; it leaves the loop only after the last page, and what it
\* returns is the concatenation of all pages (of which the web app keeps
\* the selected modules).
C4_PaginatedFetch ==
    /\ [](pc \in FetchPcs =>
            /\ RequestedInOrder
            /\ acc = RecordsOf(chain, Len(reqs))
            /\ url = 0 => Len(reqs) = Len(chain))
    /\ [][(pc \in FetchPcs /\ pc' = "loop") =>
            LET all == RecordsOf(chain, Len(chain)) IN
              /\ pc = "get_module_items" => items' = all
              /\ (pc = "get_modules" /\ mode = "cli") => modules' = all
              /\ (pc = "get_modules" /\ mode = "app") =>
                    \E sel \in SUBSET ModuleIds :
                        modules' = selected_modules(all, sel)]_vars
    /\ ((\A i \in 1..Len(chain) : chain[i].status = 200) => <>(pc = "loop"))
    /\ <>(pc \notin FetchPcs)

\* get_module_items has left its loop after three pages of one record each
C4_Witness ==
    /\ pc = "get_module_items"
    /\ url = 0
    /\ Len(reqs) = 3
    /\ \A i \in 1..3 : Len(chain[i].records) = 1
    /\ chain[1].records # chain[3].records

\* C5: when a page request of get_modules or get_module_items is answered
\* with a non-2xx status, the run ends there: the records of the earlier
\* pages are dropped, nothing is handed to the loops, and no step follows.
C5_FetchFailureDiscards ==
    (last.op = "fetch" /\ Non2xx(last.status)) =>
        /\ pc = "aborted"
        /\ items = <<>> /\ links = <<>>
        /\ last.req = "modules" => (modules = <<>> /\ module = NoModule)
        /\ report.status = "error"
        /\ ~ENABLED Next

\* the second page of a module's items fails after a first page that held
\* an item
C5_Witness ==
    /\ pc = "aborted"
    /\ last.op = "fetch" /\ last.req = "items" /\ last.page = 2
    /\ last.status = 404
    /\ acc # <<>>

\* a guarded lookup that failed: no response, a non-2xx status, or a body
\* that is not JSON
LookupFailed(l) ==
    l.status = NoResponse \/ Non2xx(l.status) \/ l.body # "json"

\* C6: a step that fetched a Page item's body and failed leaves no
\* candidate link, starts no retrieval, changes neither downloaded_files
\* nor the count nor the output, and the run goes on with the next item.
C6_PageFailureIsEmptyBody ==
    [][(last'.op = "page" /\ last'.req = "page" /\ LookupFailed(last')) =>
          /\ pc' = "loop"
          /\ links' = <<>>
          /\ pending' = NoPending
          /\ items' = Tail(items)
          /\ UNCHANGED <<modules, module, downloaded_files, total, tree,
                         calls, got, report>>]_vars

\* a page body answered 500 while the module has another item to go on with
C6_Witness ==
    /\ last.op = "page" /\ last.req = "page"
    /\ last.status = 500
    /\ pc = "loop"
    /\ items # <<>>
    /\ downloaded_files # {}

\* C7 as stated: a failed metadata lookup, on a File item's file-content
\* url or on a page link's file id, never ends the run.
C7_Original ==
    (last.req \in {"file_content", "file_info"} /\ LookupFailed(last)) =>
        pc = "loop"

\* C8 as stated: whatever request is answered 401, the run is aborted at
\* once.
C8_Original ==
    last.status = 401 => pc = "aborted"

\* C8 as amended: a 401 on the module list, on an item list or on the byte
\* retrieval aborts the run at once, and nothing follows an abort.  A 401
\* on a page body or on a page link's file metadata only passes that page
\* or link over; a 401 on a File item's file-content url is not looked at:
\* the run is aborted there only when the body is not JSON.
C8_AuthFailure ==
    /\ (last.status = 401 /\ last.req \in {"modules", "items", "download"})
          => pc = "aborted"
    /\ (last.status = 401 /\ last.req \in {"page", "file_info"})
          => (pc = "loop" /\ pending = NoPending)
    /\ (last.status = 401 /\ last.req = "file_content")
          => (pc = "aborted" <=> last.body # "json")
    /\ pc = "aborted" => ~ENABLED Next

\* the item list of a later module is answered 401 after a file had been
\* retrieved
C8_Witness ==
    /\ last.status = 401 /\ last.req = "items"
    /\ pc = "aborted"
    /\ got # {}

\* the byte retrieval failed: no response, a non-2xx status, or a failure
\* of the stream or of the write
DownloadFailed(l) ==
    l.op = "download" /\ (Non2xx(l.status) \/ l.body # "ok")

\* C9: in main() and in download_powerpoints() alike, a failed byte
\* retrieval ends the run: no step follows, the url is neither in
\* downloaded_files nor counted, and no completion is reported.
C9_RetrievalFailureIsFatal ==
    DownloadFailed(last) =>
        /\ pc = "aborted"
        /\ ~ENABLED Next
        /\ last.dl \notin downloaded_files
        /\ total = Cardinality(downloaded_files)
        /\ report.status = "error"
        /\ report.count = 0 /\ report.archive = {}

\* the web app's retrieval of a second url is answered 500 with an item and
\* a module still to come
C9_Witness ==
    /\ mode = "app"
    /\ DownloadFailed(last) /\ last.status = 500
    /\ total = 1
    /\ items # <<>> /\ modules # <<>>

\* C10 as stated: the url is in downloaded_files while its retrieval is in
\* progress and after it has failed.
C10_Original ==
    /\ pc = "download" => pending.url \in downloaded_files
    /\ DownloadFailed(last) => last.dl \in downloaded_files

\* C10 as amended: the url is tested before download_file is called and
\* added only after download_file has returned: it is not in
\* downloaded_files while its retrieval is in progress nor after the
\* retrieval has failed, and it is there once the retrieval has succeeded.
C10_MarkAfterRetrieval ==
    /\ pc = "download" =>
          (pending.url \notin downloaded_files /\ pending.url \notin got)
    /\ DownloadFailed(last) => last.dl \notin downloaded_files
    /\ (last.op = "download" /\ ~DownloadFailed(last)) =>
          (last.dl \in downloaded_files /\ pc = "loop")

\* a retrieval is in progress for a second url
C10_Witness ==
    /\ pc = "download"
    /\ downloaded_files # {}
    /\ pending.url \notin downloaded_files


\* the href values of the anchor start tags of a body, in document order
HrefValues(t) ==
    LET hs == SelectSeq(t.attrs, LAMBDA a : a[1] = "href")
    IN [i \in 1..Len(hs) |-> hs[i][2]]

RECURSIVE AnchorHrefs(_)
AnchorHrefs(doc) ==
    IF doc = <<>> THEN <<>>
    ELSE (IF Head(doc).tag = "a" THEN HrefValues(Head(doc)) ELSE <<>>)
         \o AnchorHrefs(Tail(doc))

\* an href that contains /files/ or ends in a PowerPoint extension,
\* compared case-insensitively
IsCandidate(value) ==
    /\ value # NoText
    /\ contains(value, FILES) \/ EndsInPptExtension(value)

\* C11 as stated: for every page body the extractor returns, in document
\* order, exactly the href values of the anchor start tags that contain
\* /files/ or end in .ppt, .pptx or .pptm compared case-insensitively.
C11_Original ==
    last.op = "feed" =>
        links = SelectSeq(AnchorHrefs(page_body), IsCandidate)

\* the positions of url where /files/ is immediately followed by a digit
IdPositions(u) ==
    {i \in 1..Len(u) :
        /\ i + Len(FILES) <= Len(u)
        /\ \A k \in 1..Len(FILES) : u[i + k - 1] = FILES[k]
        /\ u[i + Len(FILES)] \in Digits}

\* the first maximal run of digits that immediately follows /files/
FirstFileId(u) ==
    IF IdPositions(u) = {} THEN NoText
    ELSE LET i == CHOOSE p \in IdPositions(u) :
                    \A q \in IdPositions(u) : p <= q
             b == i + Len(FILES)
             e == CHOOSE k \in b..Len(u) :
                    /\ \A m \in b..k : u[m] \in Digits
                    /\ k = Len(u) \/ u[k + 1] \notin Digits
         IN SubSeq(u, b, e)

\* C12: extract_file_id_from_url returns the first maximal run of digits
\* that immediately follows /files/ in the link, and None when there is no
\* such run; a candidate link that yields None is passed over with no
\* metadata request and no retrieval, and any other link has its metadata
\* requested.
C12_FileIdOrDiscard ==
    [][(pc = "loop" /\ links # <<>> /\ links' = Tail(links)) =>
          LET file_url == Head(links) IN
            /\ extract_file_id_from_url(file_url) = FirstFileId(file_url)
            /\ last'.op = "link"
            /\ FirstFileId(file_url) = NoText =>
                 /\ last'.req = "none"
                 /\ pc' = "loop"
                 /\ pending' = NoPending
                 /\ calls' = calls
                 /\ tree' = tree
            /\ FirstFileId(file_url) # NoText => last'.req = "file_info"]_vars

\* the body's only link ends in .pptx and names no file id: it was a
\* candidate, and it has been passed over without a request
C12_Witness ==
    /\ page_body = <<[tag |-> "a", attrs |-> << <<"href", HREF_EXT>> >>]>>
    /\ last.op = "link"
    /\ last.req = "none"
    /\ links = <<>>
    /\ \A u \in DownloadURLs : calls[u] = 0


\* the part of a PowerPoint name before its last dot, and the part from it
BaseOf(name) ==
    CHOOSE b \in {SubSeq(name, 1, k) : k \in 0..Len(name)} :
        \E e \in {SubSeq(name, k, Len(name)) : k \in 1..Len(name)} :
            /\ b \o e = name
            /\ e[1] = "."
            /\ \A k \in 2..Len(e) : e[k] # "."

ExtOf(name) == SubSeq(name, Len(BaseOf(name)) + 1, Len(name))

\* '<stem> (N)<ext>'
Renamed(name, n) ==
    BaseOf(name) \o <<" ", "(", DigitChars[n + 1], ")">> \o ExtOf(name)

\* a step of flatten_simple that reaches a PowerPoint file of the source
SimpleCopies ==
    /\ choice = "1"
    /\ rglob # <<>>
    /\ rglob' = Tail(rglob)
    /\ Head(rglob).is_file
    /\ EndsInPptExtension(Head(rglob).name)

\* C13: flatten_simple copies each source file under its own name when no
\* file of the destination has that name, and otherwise under
\* '<stem> (N)<ext>' for the smallest N >= 2 whose name is free; no file of
\* the destination is ever replaced, and the destination gains exactly one
\* file per copied source file.
C13_RenamePolicy ==
    /\ [](choice = "1" =>
            /\ output0 \subseteq output
            /\ Cardinality(output) = Cardinality(output0) + copied_count
            /\ \A f, g \in output : f.name = g.name => f = g)
    /\ [][SimpleCopies =>
            LET ppt_file == Head(rglob)
                taken == {f.name : f \in output}
            IN /\ output \subseteq output'
               /\ copied_count' = copied_count + 1
               /\ \E name \in {f.name : f \in output'} :
                    /\ output' \ output =
                          {[name |-> name, from |-> ppt_file]}
                    /\ IF ppt_file.name \notin taken
                       THEN name = ppt_file.name
                       ELSE \E n \in 2..9 :
                              /\ name = Renamed(ppt_file.name, n)
                              /\ name \notin taken
                              /\ \A m \in 2..(n - 1) :
                                    Renamed(ppt_file.name, m) \in taken]_vars

\* a.pptx of ModA met a.pptx and a (2).pptx in the destination and was
\* copied as a (3).pptx
C13_Witness ==
    /\ choice = "1"
    /\ \E f \in output :
        /\ f.name = <<"a", " ", "(", "3", ")">> \o PPTX
        /\ f.from = [parent |-> MOD_A, name |-> A_PPTX, is_file |-> TRUE]
    /\ \E f \in output : f.name = A_PPTX /\ f.from = OldFile
    /\ \E f \in output : f.name = A2_PPTX /\ f.from = OldFile

\* s comes before t in code point order
TextBefore(s, t) ==
    /\ s # t
    /\ LET k == CHOOSE k \in 1..(Len(s) + 1) :
                  /\ \A j \in 1..(k - 1) : j <= Len(t) /\ s[j] = t[j]
                  /\ k > Len(s) \/ k > Len(t) \/ s[k] # t[k]
       IN k > Len(s) \/ (k <= Len(t) /\ ord(s[k]) < ord(t[k]))

\* f comes before g by (module name, filename)
Precedes(f, g) ==
    \/ TextBefore(f.parent, g.parent)
    \/ f.parent = g.parent /\ TextBefore(f.name, g.name)

\* 'NN - <ModuleName> - <stem><ext>'
Numbered(n, f) ==
    <<DigitChars[(n \div 10) + 1], DigitChars[(n % 10) + 1]>>
        \o <<" ", "-", " ">> \o f.parent \o <<" ", "-", " ">> \o f.name

ElementsOf(q) == {q[i] : i \in 1..Len(q)}

\* the files of the example: (ModA, b.pptx), (ModA, a.pptx), (ModB, c.pptx)
ExampleFiles ==
    { [parent |-> MOD_A, name |-> B_PPTX, is_file |-> TRUE],
      [parent |-> MOD_A, name |-> A_PPTX, is_file |-> TRUE],
      [parent |-> MOD_B, name |-> C_PPTX, is_file |-> TRUE] }

ExampleNames ==
    { <<"0", "1", " ", "-", " ", "M", "o", "d", "A", " ", "-", " ", "a",
        ".", "p", "p", "t", "x">>,
      <<"0", "2", " ", "-", " ", "M", "o", "d", "A", " ", "-", " ", "b",
        ".", "p", "p", "t", "x">>,
      <<"0", "3", " ", "-", " ", "M", "o", "d", "B", " ", "-", " ", "c",
        ".", "p", "p", "t", "x">> }

\* C14: flatten_by_number gives the PowerPoint files of the source, sorted
\* by (module name, filename), the numbers 1, 2, ..., n in that order, and
\* copies the file numbered NN as 'NN - <ModuleName> - <stem><ext>' with
\* the number padded to two digits; the n names are pairwise distinct, and
\* the example's three files come out under the example's three names.
C14_NumberedPolicy ==
    /\ [][(choice = "3" /\ pc = "flatten" /\ pc' = "numbering") =>
            /\ ElementsOf(all_files') =
                 {f \in ElementsOf(rglob) :
                    f.is_file /\ EndsInPptExtension(f.name)}
            /\ Len(all_files') = Cardinality(ElementsOf(all_files'))]_vars
    /\ [](choice = "3" /\ pc \in {"numbering", "flattened"} =>
            LET S == ElementsOf(all_files)
                Rank(f) == 1 + Cardinality({g \in S : Precedes(g, f)})
            IN /\ \A i \in 1..copied_count :
                    /\ Rank(all_files[i]) = i
                    /\ [name |-> Numbered(i, all_files[i]),
                        from |-> all_files[i]] \in output
               /\ \A i, j \in 1..copied_count :
                    i # j => Numbered(i, all_files[i])
                              # Numbered(j, all_files[j])
               /\ pc = "flattened" => copied_count = Cardinality(S)
               /\ (pc = "flattened" /\ S = ExampleFiles) =>
                    {f.name : f \in output \ output0} = ExampleNames)

\* the example's files have been numbered: c.pptx of ModB is the third
C14_Witness ==
    /\ choice = "3"
    /\ pc = "flattened"
    /\ ElementsOf(all_files) = ExampleFiles
    /\ [name |-> <<"0", "3", " ", "-", " ", "M", "o", "d", "B", " ", "-",
                   " ", "c", ".", "p", "p", "t", "x">>,
        from |-> [parent |-> MOD_B, name |-> C_PPTX, is_file |-> TRUE]]
          \in output

\* a name with every one of  < > : " / \ | ? *  turned into _
Clean(t) ==
    [i \in 1..Len(t) |->
        IF t[i] \in {"<", ">", ":", "\"", "/", "\\", "|", "?", "*"}
        THEN "_" ELSE t[i]]

PathOf(f) == <<f.folder, f.name>>

\* the output of the run: the tree under output_dir, or the archive made
\* of temp_dir
OutputFiles == IF mode = "app" /\ pc = "done" THEN report.archive ELSE tree

=============================================================================
